---------------------------- MODULE Spec2Model ----------------------------
(***************************************************************************)
(* A model of app.py, the Hsinchu Ubike route planner: the station loader, *)
(* the nearest-station search, the location resolver, plan_route and the   *)
(* part of main that drives them and reports the comparison.               *)
(*                                                                         *)
(* Conventions.                                                            *)
(*   - A Python str the program parses is a sequence of one-character      *)
(*     strings; a str it only compares is a TLA+ string.                   *)
(*   - A Python float is an exact decimal counted in thousandths           *)
(*     (24.787 is 24787); the inputs are short enough that no digit is     *)
(*     lost.                                                               *)
(*   - Python's None, a dict and a tuple are records told apart by "tag".  *)
(*   - A station handed around by reference is its index in ubike_list.    *)
(***************************************************************************)
EXTENDS Integers, Sequences, FiniteSets, TLC

VARIABLES
    pc,             \* position of the running function (main, or the function under study)
    data,           \* the parsed content of HsinChu_Ubike.json
    ubike_list,     \* the normalized station list
    origin_input,   \* text of the origin field
    dest_input,     \* text of the destination field
    origin,         \* input_latlng(origin_input)
    destination,    \* input_latlng(dest_input)
    calls,          \* the requests sent to the Google Maps services, in order
    nearest,        \* plan_route's locals ubike_start, ubike_end; or the list find_nearest_ubike returned
    responses,      \* plan_route's locals dm1, dm2, dm3, transit
    summary,        \* what plan_route returned
    error,          \* the exception that ended plan_route or the display, or None
    report,         \* what main displayed
    top_k           \* find_nearest_ubike's top_k

vars == <<pc, data, ubike_list, origin_input, dest_input, origin, destination,
          calls, nearest, responses, summary, error, report, top_k>>

-----------------------------------------------------------------------------
(* Bounds of the model. *)

MaxStations == 3      \* longest station list
MaxLen == 5           \* longest text typed into a field
MaxRecords == 2       \* longest dataset
MaxLegs == 2          \* most legs of a transit route

-----------------------------------------------------------------------------
(* Values. *)

None == [tag |-> "None"]

Tuple(lat, lng) == [tag |-> "tuple", lat |-> lat, lng |-> lng]

\* Thousandths in one unit: the fixed point of the float model.
Scale == 10 * 10 * 10

Deg(d) == d * Scale

Min(a, b) == IF a <= b THEN a ELSE b

RECURSIVE SumSeq(_)
SumSeq(s) == IF s = <<>> THEN 0 ELSE Head(s) + SumSeq(Tail(s))

\* All sequences over S of length at most n.
SeqsUpTo(S, n) == UNION {[1..m -> S] : m \in 0..n}

-----------------------------------------------------------------------------
(* haversine.  The trigonometry is exact on the angles the model uses:     *)
(* latitudes that are multiples of 60 degrees, longitudes that are         *)
(* multiples of 90 degrees.  Cos2(x) is 2*cos(x); Hav16 is 16*a; the       *)
(* result 2*R*asin(sqrt(a)) is tabulated in metres for the 17 values of    *)
(* 16*a, computed with R = 6371000.                                        *)

Cos2(x) ==
    LET d == (x \div Scale) % 360
    IN  CASE d = 0 -> 2
          [] d = 60 -> 1
          [] d = 90 -> 0
          [] d = 120 -> -1
          [] d = 180 -> -2
          [] d = 240 -> -1
          [] d = 270 -> 0
          [] d = 300 -> 1

Hav16(lat1, lon1, lat2, lon2) ==
    4 * (2 - Cos2(lat2 - lat1)) + Cos2(lat1) * Cos2(lat2) * (2 - Cos2(lon2 - lon1))

Metres ==
    <<0, 3219652, 4604540, 5706280, 6671696, 7558552, 8397717, 9209080, 10007543,
      10806007, 11617369, 12456535, 13343391, 14308806, 15410547, 16795435, 20015087>>

haversine(lat1, lon1, lat2, lon2) == Metres[Hav16(lat1, lon1, lat2, lon2) + 1]


-----------------------------------------------------------------------------
(* find_nearest_ubike.  list.sort is stable: an element goes after every   *)
(* element already placed whose key is not greater.                        *)

\* distances: one (d, ub) pair per station, in list order; ub is the station's index.
Distances(user_lat, user_lng, list) ==
    [i \in 1..Len(list) |->
        [d |-> haversine(user_lat, user_lng, list[i].lat, list[i].lng), ub |-> i]]

\* InsertByKey with the order of equal keys turned round, as a sort that is
\* not stable may leave it.
InsertBeforeEqual(sorted, x) ==
    LET n == Cardinality({j \in 1..Len(sorted) : sorted[j].d < x.d})
    IN  SubSeq(sorted, 1, n) \o <<x>> \o SubSeq(sorted, n + 1, Len(sorted))

\* The sorted list with x put in, behind the elements whose key is <= x's.
InsertByKey(sorted, x) ==
    LET n == Cardinality({j \in 1..Len(sorted) : sorted[j].d <= x.d})
    IN  SubSeq(sorted, 1, n) \o <<x>> \o SubSeq(sorted, n + 1, Len(sorted))

RECURSIVE SortByKey(_)
SortByKey(s) ==
    IF s = <<>> THEN <<>>
    ELSE InsertByKey(SortByKey(SubSeq(s, 1, Len(s) - 1)), s[Len(s)])

\* Slice taking one element too many: distances[:top_k + 1].
SliceOneMore(s, k) == SubSeq(s, 1, Min(k + 1, Len(s)))

\* distances[:top_k], for top_k >= 0.
Slice(s, k) == SubSeq(s, 1, Min(k, Len(s)))

\* [u[1] for u in ...]: the stations of the pairs.
Stations(pairs) == [i \in 1..Len(pairs) |-> pairs[i].ub]

find_nearest_ubike(user_lat, user_lng, list, k) ==
    Stations(Slice(SortByKey(Distances(user_lat, user_lng, list)), k))

-----------------------------------------------------------------------------
(* Text: str.strip, float(str), and the pattern of input_latlng.           *)

Digits == {"0", "1", "2", "3", "4", "5", "6", "7", "8", "9"}

DigitVal(c) ==
    CASE c = "0" -> 0 [] c = "1" -> 1 [] c = "2" -> 2 [] c = "3" -> 3 [] c = "4" -> 4
      [] c = "5" -> 5 [] c = "6" -> 6 [] c = "7" -> 7 [] c = "8" -> 8 [] c = "9" -> 9

IsSpace(c) == c = " "

RECURSIVE LStrip(_)
LStrip(s) == IF s # <<>> /\ IsSpace(Head(s)) THEN LStrip(Tail(s)) ELSE s

RECURSIVE RStrip(_)
RStrip(s) ==
    IF s # <<>> /\ IsSpace(s[Len(s)]) THEN RStrip(SubSeq(s, 1, Len(s) - 1)) ELSE s

Strip(s) == RStrip(LStrip(s))

\* The first position at or after i that holds no digit (\d+ is greedy).
RECURSIVE DigitsEnd(_, _)
DigitsEnd(s, i) ==
    IF i <= Len(s) /\ s[i] \in Digits THEN DigitsEnd(s, i + 1) ELSE i

\* The first position at or after i that holds no whitespace (\s*).
RECURSIVE SpacesEnd(_, _)
SpacesEnd(s, i) ==
    IF i <= Len(s) /\ IsSpace(s[i]) THEN SpacesEnd(s, i + 1) ELSE i

\* -? at position i: the position after it.
SignEnd(s, i) == IF i <= Len(s) /\ s[i] = "-" THEN i + 1 ELSE i

\* (\.\d+)? at position e: the position after it; the group is taken when a
\* digit follows the point.
FractionEnd(s, e) ==
    IF e <= Len(s) /\ s[e] = "." /\ DigitsEnd(s, e + 1) > e + 1
    THEN DigitsEnd(s, e + 1)
    ELSE e

\* \d+(\.\d+)? from position j, e being where the digits end: the position
\* after the match, 0 when there is no digit.
NumberFrom(s, j, e) == IF e = j THEN 0 ELSE FractionEnd(s, e)

\* -?\d+(\.\d+)? matched at position i: the position after the match, 0 when
\* there is none.
NumberEnd(s, i) == NumberFrom(s, SignEnd(s, i), DigitsEnd(s, SignEnd(s, i)))

\* $ after the second number: the groups 1 and 3 when the match ends the text.
MatchEnd(t, e1, b, e2) ==
    IF e2 > 0 /\ e2 = Len(t) + 1
    THEN [tag |-> "match", g1 |-> SubSeq(t, 1, e1 - 1), g3 |-> SubSeq(t, b, e2 - 1)]
    ELSE None

\* MatchComma for a pattern without \s*: the second number right after the comma.
MatchCommaNoSpace(t, e1) ==
    IF e1 > 0 /\ e1 <= Len(t) /\ t[e1] = ","
    THEN MatchEnd(t, e1, e1 + 1, NumberEnd(t, e1 + 1))
    ELSE None

\* ,\s* after the first number, which ends before position e1, then the
\* second number.
MatchComma(t, e1) ==
    IF e1 > 0 /\ e1 <= Len(t) /\ t[e1] = ","
    THEN MatchEnd(t, e1, SpacesEnd(t, e1 + 1), NumberEnd(t, SpacesEnd(t, e1 + 1)))
    ELSE None

\* re.match(r"^(-?\d+(\.\d+)?),\s*(-?\d+(\.\d+)?)$", t): the groups 1 and 3,
\* or None.
ReMatch(t) == MatchComma(t, NumberEnd(t, 1))

RECURSIVE Natural(_)
Natural(s) == IF s = <<>> THEN 0 ELSE 10 * Natural(SubSeq(s, 1, Len(s) - 1)) + DigitVal(s[Len(s)])

\* The first three fraction digits, as thousandths.
Thousandths(s) ==
    LET p == SubSeq(s \o <<"0", "0", "0">>, 1, 3)
    IN  Natural(p)

\* The float of a sign, the digits before the point and those after it;
\* ValueError when there is no digit or the text goes on (whole is false).
FloatValue(neg, ip, fp, whole) ==
    IF whole /\ Len(ip) + Len(fp) > 0
    THEN [tag |-> "float",
          v |-> (IF neg THEN -1 ELSE 1) * (Natural(ip) * Scale + Thousandths(fp))]
    ELSE [tag |-> "ValueError"]

\* The unsigned text u, whose leading digits end before position e.
FloatParts(u, neg, e) ==
    IF e <= Len(u) /\ u[e] = "."
    THEN FloatValue(neg, SubSeq(u, 1, e - 1), SubSeq(u, e + 1, Len(u)),
                    DigitsEnd(u, e + 1) = Len(u) + 1)
    ELSE FloatValue(neg, SubSeq(u, 1, e - 1), <<>>, e = Len(u) + 1)

FloatSigned(t) ==
    IF t # <<>> /\ t[1] \in {"-", "+"}
    THEN FloatParts(Tail(t), t[1] = "-", DigitsEnd(Tail(t), 1))
    ELSE FloatParts(t, FALSE, DigitsEnd(t, 1))

\* float(x) for a str x: whitespace stripped, a sign, digits with an optional
\* point, at least one digit.  The value in thousandths, or ValueError.
FloatOfStr(x) == FloatSigned(Strip(x))

-----------------------------------------------------------------------------
(* JSON values.  A dict is a record whose absent keys hold Absent, so      *)
(* d.get(k) is None exactly when d.k is Absent or Null.                    *)

Absent == [tag |-> "absent"]
Null == [tag |-> "null"]
Num(v) == [tag |-> "number", v |-> v]
Str(s) == [tag |-> "str", s |-> s]

-----------------------------------------------------------------------------
(* load_ubike_data.                                                        *)

\* float(x) for the value item.get(k) gives: None raises TypeError, a str is
\* parsed, a number is taken as it is.
FloatOf(x) ==
    CASE x.tag = "number" -> [tag |-> "float", v |-> x.v]
      [] x.tag = "str" -> FloatOfStr(x.s)
      [] OTHER -> [tag |-> "TypeError"]

\* item.get(k): the value, None for an absent key.
Get(x) == IF x.tag \in {"absent", "null"} THEN None ELSE x

\* Station for a loader that also drops the records without a name.
StationNamed(item, lat, lng) ==
    IF Get(item.name) = None THEN [tag |-> "KeyError"]
    ELSE IF lat.tag # "float" THEN lat
    ELSE IF lng.tag # "float" THEN lng
    ELSE [tag |-> "station", name |-> Get(item.name), lat |-> lat.v, lng |-> lng.v]

\* The dict appended for an item whose two floats are lat and lng, or the
\* exception float raised.
Station(item, lat, lng) ==
    IF lat.tag # "float" THEN lat
    ELSE IF lng.tag # "float" THEN lng
    ELSE [tag |-> "station", name |-> Get(item.name), lat |-> lat.v, lng |-> lng.v]

\* The body of the try for one item: the normalized station, or the exception
\* that the except clause swallows.  An item that is no dict has no get.
Normalize(item) ==
    IF item.tag # "dict" THEN [tag |-> "AttributeError"]
    ELSE Station(item, FloatOf(item.lat), FloatOf(item.lng))

\* normalized after the loop: the stations, in the order of the items.
Kept(st) == IF st.tag = "station" THEN <<st>> ELSE <<>>

RECURSIVE NormalizeAll(_)
NormalizeAll(items) ==
    IF items = <<>> THEN <<>>
    ELSE Kept(Normalize(Head(items))) \o NormalizeAll(Tail(items))

\* load_ubike_data(path): [] when the file does not exist, else the list of
\* the items that normalize, in the file's order.
load_ubike_data(d) ==
    IF d.tag = "nofile" THEN <<>> ELSE NormalizeAll(d.items)

-----------------------------------------------------------------------------
(* The Google Maps calls.  A response is [tag |-> "raise"] when requests.get *)
(* times out, raise_for_status raises or the body is no JSON; else the JSON. *)

Raise == [tag |-> "raise"]

DistanceMatrixRequest(o, d, mode) ==
    [api |-> "distancematrix", origin |-> o, destination |-> d, mode |-> mode]

DirectionsRequest(o, d, mode) ==
    [api |-> "directions", origin |-> o, destination |-> d, mode |-> mode]

\* The three query parts of the link; the percent-encoding of the text is not modelled.
generate_maps_link(o, d, mode) == [origin |-> o, destination |-> d, travelmode |-> mode]

-----------------------------------------------------------------------------
(* input_latlng(s), given the response the directions service would give.  *)
(* ret is the value returned; called tells whether the service was asked.  *)

\* geocode_resp["routes"][0]["legs"][0]["start_location"], any failure giving None.
GeocodeOf(resp) ==
    IF resp.tag = "raise" THEN None
    ELSE IF resp.routes.tag # "list" \/ resp.routes.items = <<>> THEN None
    ELSE LET route == resp.routes.items[1]
         IN  IF route.legs.tag # "list" \/ route.legs.items = <<>> THEN None
             ELSE LET loc == route.legs.items[1].start_location
                  IN  IF loc.tag # "dict" THEN None ELSE Tuple(loc.lat, loc.lng)

\* Lines 195-201: the directions service is asked.
Geocoded(resp) == [ret |-> GeocodeOf(resp), called |-> TRUE]

\* Lines 190-193: the two floats, or on ValueError the way on to the service.
Parsed(lat, lng, resp) ==
    IF lat.tag = "float" /\ lng.tag = "float"
    THEN [ret |-> Tuple(lat.v, lng.v), called |-> FALSE]
    ELSE Geocoded(resp)

\* Line 189: if match.
Matched(match, resp) ==
    IF match = None THEN Geocoded(resp)
    ELSE Parsed(FloatOfStr(match.g1), FloatOfStr(match.g3), resp)

input_latlng(s, resp) ==
    IF s = <<>> THEN [ret |-> None, called |-> FALSE]
    ELSE Matched(ReMatch(Strip(s)), resp)

-----------------------------------------------------------------------------
(* parse_dm and the transit summary of plan_route.                         *)

EmptyDict == [tag |-> "empty"]

\* el.get(k, {}): the dict under k, {} for an absent key, and the null a
\* present key may hold.
GetDict(x) == IF x.tag = "absent" THEN [tag |-> "dict", text |-> Absent, value |-> Absent] ELSE x

\* parse_dm without its test of the status.
parse_dm_any_status(dm) ==
    IF dm.rows.tag # "list" \/ dm.rows.items = <<>> THEN [tag |-> "empty"]
    ELSE LET elements == dm.rows.items[1].elements
         IN  IF elements.tag # "list" \/ elements.items = <<>> THEN [tag |-> "empty"]
             ELSE LET el == elements.items[1]
                      distance == GetDict(el.distance)
                      duration == GetDict(el.duration)
                  IN  IF distance.tag # "dict" \/ duration.tag # "dict" THEN [tag |-> "empty"]
                      ELSE [tag |-> "leg",
                            distance_text |-> Get(distance.text),
                            distance_m |-> Get(distance.value),
                            duration_text |-> Get(duration.text),
                            duration_s |-> Get(duration.value),
                            status |-> Get(el.status)]

\* The try of parse_dm: {} when a subscript fails, when the status is not
\* "OK", and when get is called on a value that is no dict.
parse_dm(dm) ==
    IF dm.rows.tag # "list" \/ dm.rows.items = <<>> THEN EmptyDict
    ELSE LET elements == dm.rows.items[1].elements
         IN  IF elements.tag # "list" \/ elements.items = <<>> THEN EmptyDict
             ELSE LET el == elements.items[1]
                      distance == GetDict(el.distance)
                      duration == GetDict(el.duration)
                  IN  IF Get(el.status) # Str("OK") THEN EmptyDict
                      ELSE IF distance.tag # "dict" \/ duration.tag # "dict" THEN EmptyDict
                      ELSE [tag |-> "leg",
                            distance_text |-> Get(distance.text),
                            distance_m |-> Get(distance.value),
                            duration_text |-> Get(duration.text),
                            duration_s |-> Get(duration.value),
                            status |-> Get(el.status)]

\* leg.get("duration", {}).get("value", 0)
LegSeconds(leg) ==
    LET duration == GetDict(leg.duration)
    IN  IF duration.tag # "dict" THEN [tag |-> "AttributeError"]
        ELSE IF duration.value.tag = "absent" THEN Num(0)
        ELSE duration.value

\* The try of lines 156-162: {} on any exception (no "routes", no first
\* route, a duration that is no number).
TransitInfo(transit) ==
    IF transit.routes.tag # "list" \/ transit.routes.items = <<>> THEN EmptyDict
    ELSE LET troute == transit.routes.items[1]
             tlegs == IF troute.legs.tag = "list" THEN troute.legs.items ELSE <<>>
             secs == [i \in 1..Len(tlegs) |-> LegSeconds(tlegs[i])]
         IN  IF \E i \in 1..Len(secs) : secs[i].tag # "number" THEN EmptyDict
             ELSE [tag |-> "transit",
                   duration_s |-> SumSeq([i \in 1..Len(secs) |-> secs[i].v]),
                   summary |-> IF troute.summary.tag = "absent" THEN Str("") ELSE troute.summary]


-----------------------------------------------------------------------------
(* plan_route.                                                             *)

\* top_k of the two searches of plan_route.
TopK == 3

Exception(type) == [tag |-> "exception", type |-> type]

StationPoint(list, i) == Tuple(list[i].lat, list[i].lng)

ubike_start == nearest.from[1]
ubike_end == nearest.to[1]

ori_str == origin
dest_str == destination
start_str == StationPoint(ubike_list, ubike_start)
end_str == StationPoint(ubike_list, ubike_end)

\* Lines 146-180, run once the four responses are in: the links, the three
\* parsed legs, the transit summary, and the dict returned.
Summary(dm1, dm2, dm3, transit) ==
    [tag |-> "summary",
     origin_coords |-> origin,
     dest_coords |-> destination,
     ubike_start |-> ubike_start,
     ubike_end |-> ubike_end,
     walk_to_ubike |-> parse_dm(dm1),
     bike_leg |-> parse_dm(dm2),
     walk_from_ubike |-> parse_dm(dm3),
     transit_option |-> TransitInfo(transit),
     links |-> [walk1 |-> generate_maps_link(ori_str, start_str, "walking"),
                bike |-> generate_maps_link(start_str, end_str, "bicycling"),
                walk2 |-> generate_maps_link(end_str, dest_str, "walking"),
                transit |-> generate_maps_link(ori_str, dest_str, "transit")]]

\* Lines 126-138: the two searches and the first station of each.
PlanBegin ==
    /\ pc = "plan"
    /\ IF ubike_list = <<>>
       THEN /\ error' = Exception("IndexError")
            /\ pc' = "raised"
            /\ UNCHANGED nearest
       ELSE /\ nearest' = [tag |-> "nearest",
                           from |-> find_nearest_ubike(origin.lat, origin.lng, ubike_list, TopK),
                           to |-> find_nearest_ubike(destination.lat, destination.lng, ubike_list, TopK)]
            /\ pc' = "dm1"
            /\ UNCHANGED error
    /\ UNCHANGED <<data, ubike_list, origin_input, dest_input, origin, destination,
                   calls, responses, summary, report, top_k>>

\* DistanceMatrixCall with one retry: a call that raises is sent again
\* before the exception is let through.
DistanceMatrixCallRetry(at, o, d, mode, resp, next) ==
    /\ pc = at
    /\ IF resp.tag = "raise"
       THEN /\ calls' = calls \o <<DistanceMatrixRequest(o, d, mode),
                                   DistanceMatrixRequest(o, d, mode)>>
            /\ error' = Exception("RequestException")
            /\ pc' = "raised"
            /\ UNCHANGED responses
       ELSE /\ calls' = Append(calls, DistanceMatrixRequest(o, d, mode))
            /\ responses' = Append(responses, resp)
            /\ pc' = next
            /\ UNCHANGED error
    /\ UNCHANGED <<data, ubike_list, origin_input, dest_input, origin, destination,
                   nearest, summary, report, top_k>>

\* One call of google_distance_matrix: the request goes out, and either the
\* call raises, which ends plan_route, or its JSON is kept.
DistanceMatrixCall(at, o, d, mode, resp, next) ==
    /\ pc = at
    /\ calls' = Append(calls, DistanceMatrixRequest(o, d, mode))
    /\ IF resp.tag = "raise"
       THEN /\ error' = Exception("RequestException")
            /\ pc' = "raised"
            /\ UNCHANGED responses
       ELSE /\ responses' = Append(responses, resp)
            /\ pc' = next
            /\ UNCHANGED error
    /\ UNCHANGED <<data, ubike_list, origin_input, dest_input, origin, destination,
                   nearest, summary, report, top_k>>

\* Line 140.
Dm1(resp) == DistanceMatrixCall("dm1", ori_str, start_str, "walking", resp, "dm2")

\* Line 141.
Dm2(resp) == DistanceMatrixCall("dm2", start_str, end_str, "bicycling", resp, "dm3")

\* Line 142.
Dm3(resp) == DistanceMatrixCall("dm3", end_str, dest_str, "walking", resp, "transit")

\* Transit with the failure of the call swallowed: the itinerary is built
\* without a transit route.
TransitOrNothing(resp) ==
    /\ pc = "transit"
    /\ calls' = Append(calls, DirectionsRequest(ori_str, dest_str, "transit"))
    /\ IF resp.tag = "raise"
       THEN /\ summary' = Summary(responses[1], responses[2], responses[3],
                                  [tag |-> "json", routes |-> Absent])
            /\ UNCHANGED responses
       ELSE /\ responses' = Append(responses, resp)
            /\ summary' = Summary(responses[1], responses[2], responses[3], resp)
    /\ pc' = "returned"
    /\ UNCHANGED <<data, ubike_list, origin_input, dest_input, origin, destination,
                   nearest, error, report, top_k>>

\* Line 144, and on its return lines 146-180.
Transit(resp) ==
    /\ pc = "transit"
    /\ calls' = Append(calls, DirectionsRequest(ori_str, dest_str, "transit"))
    /\ IF resp.tag = "raise"
       THEN /\ error' = Exception("RequestException")
            /\ pc' = "raised"
            /\ UNCHANGED <<responses, summary>>
       ELSE /\ responses' = Append(responses, resp)
            /\ summary' = Summary(responses[1], responses[2], responses[3], resp)
            /\ pc' = "returned"
            /\ UNCHANGED error
    /\ UNCHANGED <<data, ubike_list, origin_input, dest_input, origin, destination,
                   nearest, report, top_k>>

-----------------------------------------------------------------------------
(* main.                                                                   *)

\* Lines 226-228: the stations are loaded, and main returns when there are none.
Load ==
    /\ pc = "main"
    /\ ubike_list' = load_ubike_data(data)
    /\ pc' = IF load_ubike_data(data) = <<>> THEN "done" ELSE "form"
    /\ UNCHANGED <<data, origin_input, dest_input, origin, destination, calls,
                   nearest, responses, summary, error, report, top_k>>

\* The request input_latlng sends when it asks the directions service.
GeocodeCalls(s, r) == IF r.called THEN <<DirectionsRequest(s, s, "walking")>> ELSE <<>>

\* Lines 246-248: the button is pressed and the origin resolved, r being
\* what input_latlng did.
OriginResolved(r) ==
    /\ pc = "form"
    /\ origin' = r.ret
    /\ calls' = calls \o GeocodeCalls(origin_input, r)
    /\ pc' = "dest"
    /\ UNCHANGED <<data, ubike_list, origin_input, dest_input, destination,
                   nearest, responses, summary, error, report, top_k>>

ResolveOrigin(resp) == OriginResolved(input_latlng(origin_input, resp))

\* DestResolved with "and" for "or" in the test of line 251.
DestResolvedWhenBothFail(r) ==
    /\ pc = "dest"
    /\ destination' = r.ret
    /\ calls' = calls \o GeocodeCalls(dest_input, r)
    /\ IF origin = None /\ r.ret = None
       THEN /\ report' = [tag |-> "unresolvable"]
            /\ pc' = "done"
       ELSE /\ pc' = "plan"
            /\ UNCHANGED report
    /\ UNCHANGED <<data, ubike_list, origin_input, dest_input, origin,
                   nearest, responses, summary, error, top_k>>

\* Lines 249-253: the destination is resolved, and main reports and returns
\* when either of the two is None.
DestResolved(r) ==
    /\ pc = "dest"
    /\ destination' = r.ret
    /\ calls' = calls \o GeocodeCalls(dest_input, r)
    /\ IF origin = None \/ r.ret = None
       THEN /\ report' = [tag |-> "unresolvable"]
            /\ pc' = "done"
       ELSE /\ pc' = "plan"
            /\ UNCHANGED report
    /\ UNCHANGED <<data, ubike_list, origin_input, dest_input, origin,
                   nearest, responses, summary, error, top_k>>

ResolveDest(resp) == DestResolved(input_latlng(dest_input, resp))

\* leg.get('duration_s', 0): 0 for {}, else what the key holds, None included.
DurationOr0(leg) == IF leg.tag = "empty" THEN Num(0) ELSE leg.duration_s

\* Minutes rounding to the nearest minute: round(x / 60).
MinutesRounded(x) == (x + 30) \div 60

\* int(x / 60) for x >= 0.
Minutes(x) == x \div 60

\* Lines 304-325: the transit column.
TransitReport(transit_option, total_ubike_min) ==
    LET transit_sec == IF transit_option.tag = "empty" THEN 0 ELSE transit_option.duration_s
        transit_min == Minutes(transit_sec)
        diff == transit_min - total_ubike_min
    IN  IF transit_sec > 0
        THEN [tag |-> "transit",
              transit_min |-> transit_min,
              diff |-> diff,
              caption |-> IF diff > 0 THEN "ubike_faster"
                          ELSE IF diff < 0 THEN "transit_faster"
                          ELSE "same"]
        ELSE [tag |-> "warning"]

\* Lines 257-325: what main shows for a summary; adding a None raises
\* TypeError, which line 337 catches and shows.
Shown(s) ==
    LET t1 == DurationOr0(s.walk_to_ubike)
        t2 == DurationOr0(s.bike_leg)
        t3 == DurationOr0(s.walk_from_ubike)
    IN  IF t1.tag # "number" \/ t2.tag # "number" \/ t3.tag # "number"
        THEN [tag |-> "error", type |-> "TypeError"]
        ELSE LET total_ubike_min == Minutes(t1.v + t2.v + t3.v)
             IN  [tag |-> "shown",
                  total_ubike_min |-> total_ubike_min,
                  bike_min |-> Minutes(t2.v),
                  transit |-> TransitReport(s.transit_option, total_ubike_min)]

\* Lines 255-335: plan_route has returned and its summary is shown.
Display ==
    /\ pc = "returned"
    /\ report' = Shown(summary)
    /\ pc' = "done"
    /\ UNCHANGED <<data, ubike_list, origin_input, dest_input, origin, destination,
                   calls, nearest, responses, summary, error, top_k>>

\* Lines 337-338: plan_route has raised and the error is shown.
Except ==
    /\ pc = "raised"
    /\ report' = [tag |-> "error", type |-> error.type]
    /\ pc' = "done"
    /\ UNCHANGED <<data, ubike_list, origin_input, dest_input, origin, destination,
                   calls, nearest, responses, summary, error, top_k>>

\* find_nearest_ubike called on its own (lines 52-58).
FindNearest ==
    /\ pc = "call"
    /\ nearest' = find_nearest_ubike(origin.lat, origin.lng, ubike_list, top_k)
    /\ pc' = "return"
    /\ UNCHANGED <<data, ubike_list, origin_input, dest_input, origin, destination,
                   calls, responses, summary, error, report, top_k>>


-----------------------------------------------------------------------------
(* The inputs the model draws from.                                        *)

List(items) == [tag |-> "list", items |-> items]

\* Points whose latitude is a multiple of 60 and longitude a multiple of 90.
StationPoints == {Tuple(Deg(0), Deg(90)), Tuple(Deg(0), Deg(-90)),
                  Tuple(Deg(60), Deg(0)), Tuple(Deg(-60), Deg(180))}

QueryPoints == {Tuple(Deg(0), Deg(0)), Tuple(Deg(60), Deg(90)), Tuple(Deg(0), Deg(180))}

StationAt(p) == [tag |-> "station", name |-> Str("S"), lat |-> p.lat, lng |-> p.lng]

StationLists(least) ==
    UNION {[1..m -> {StationAt(p) : p \in StationPoints}] : m \in least..MaxStations}

\* Dataset items: one that is no dict, and dicts whose three keys are
\* absent, null, numbers, numeric text or other text.
DictItem(name, lat, lng) == [tag |-> "dict", name |-> name, lat |-> lat, lng |-> lng]

LoadItems ==
    {[tag |-> "other"]} \cup
    {DictItem(name, lat, lng) :
        name \in {Absent, Str("A")},
        lat \in {Absent, Null, Num(Deg(60)), Str(<<"6", "0">>), Str(<<"x">>)},
        lng \in {Absent, Num(Deg(90)), Str(<<"9", "0", ".", "5">>), Str(<<>>)}}

NoFile == [tag |-> "nofile"]
File(items) == [tag |-> "file", items |-> items]

LoadData == {NoFile} \cup {File(items) : items \in SeqsUpTo(LoadItems, MaxRecords)}

\* The datasets of main: no file, a file with no usable record, and a file
\* of four records of which the second has no numeric latitude.
MainData ==
    {NoFile,
     File(<<DictItem(Str("A"), Str(<<"x">>), Num(Deg(0)))>>),
     File(<<DictItem(Str("A"), Str(<<"0">>), Str(<<"9", "0">>)),
            DictItem(Str("B"), Str(<<"x">>), Num(Deg(90))),
            DictItem(Str("C"), Num(Deg(0)), Num(Deg(-90))),
            DictItem(Str("D"), Num(Deg(60)), Num(Deg(0)))>>)}

\* Texts typed into a field: every text of at most MaxLen characters.
Alphabet == {"9", "-", ".", ",", " "}

Texts == SeqsUpTo(Alphabet, MaxLen)

\* The texts of main: nothing, two coordinate pairs, and an address.
MainInputs == {<<>>, <<"0", ",", "0">>, <<"6", "0", ",", " ", "9", "0">>, <<"x">>}

\* Responses of the directions service.
Route(legs) == [tag |-> "dict", legs |-> legs, summary |-> Absent]
Leg(start_location, duration) ==
    [tag |-> "dict", start_location |-> start_location, duration |-> duration]
Directions(routes) == [tag |-> "json", routes |-> routes]
Location(p) == [tag |-> "dict", lat |-> p.lat, lng |-> p.lng]
Seconds(v) == [tag |-> "dict", text |-> Str("text"), value |-> v]

OneRoute(legs) == Directions(List(<<Route(legs)>>))

GeocodeResponses ==
    {Raise,
     Directions(Absent),
     Directions(List(<<>>)),
     OneRoute(Absent),
     OneRoute(List(<<>>)),
     OneRoute(List(<<Leg(Absent, Absent)>>)),
     OneRoute(List(<<Leg(Location(Tuple(Deg(0), Deg(180))), Absent)>>))}

TransitLegs ==
    {Leg(Absent, d) : d \in {Absent, Seconds(Num(599)), Seconds(Num(600))}}

TransitResponses ==
    {Raise,
     Directions(Absent),
     Directions(List(<<>>)),
     OneRoute(Absent),
     OneRoute(List(<<Leg(Absent, Seconds(Null))>>))}
    \cup {OneRoute(List(legs)) : legs \in SeqsUpTo(TransitLegs, MaxLegs)}

\* Responses of the distance matrix service.
Cell(status, distance, duration) ==
    [tag |-> "dict", status |-> status, distance |-> distance, duration |-> duration]
Matrix(rows) == [tag |-> "json", rows |-> rows]
Row(elements) == [tag |-> "dict", elements |-> elements]
OneCell(cell) == Matrix(List(<<Row(List(<<cell>>))>>))
OkCell(secs) == Cell(Str("OK"), Seconds(Num(secs)), Seconds(Num(secs)))

MatrixResponses ==
    {Raise,
     Matrix(Absent),
     Matrix(List(<<>>)),
     Matrix(List(<<Row(List(<<>>))>>)),
     OneCell(Cell(Str("ZERO_RESULTS"), Absent, Absent)),
     OneCell(Cell(Str("OK"), Seconds(Num(1)), Absent)),
     OneCell(OkCell(240)), OneCell(OkCell(300)), OneCell(OkCell(600))}

\* The two outcomes that suffice where only the chosen stations matter.
FewMatrixResponses == {Raise, OneCell(OkCell(300))}

FewTransitResponses == {Raise, OneRoute(List(<<Leg(Absent, Seconds(Num(600)))>>))}

-----------------------------------------------------------------------------
(* Specifications.                                                         *)

Idle ==
    /\ origin = None
    /\ destination = None
    /\ calls = <<>>
    /\ nearest = None
    /\ responses = <<>>
    /\ summary = None
    /\ error = None
    /\ report = None
    /\ top_k = 0

\* main, from its start: a dataset on disk and two texts in the form.
Init ==
    /\ pc = "main"
    /\ data \in MainData
    /\ ubike_list = <<>>
    /\ origin_input \in MainInputs
    /\ dest_input \in MainInputs
    /\ Idle

PlanNext(M, T) ==
    \/ PlanBegin
    \/ \E resp \in M : Dm1(resp)
    \/ \E resp \in M : Dm2(resp)
    \/ \E resp \in M : Dm3(resp)
    \/ \E resp \in T : Transit(resp)

Next ==
    \/ Load
    \/ \E resp \in GeocodeResponses : ResolveOrigin(resp)
    \/ \E resp \in GeocodeResponses : ResolveDest(resp)
    \/ PlanNext(MatrixResponses, TransitResponses)
    \/ Display
    \/ Except

Spec == Init /\ [][Next]_vars

\* load_ubike_data on every dataset of at most MaxRecords records.
InitLoad ==
    /\ pc = "main"
    /\ data \in LoadData
    /\ ubike_list = <<>>
    /\ origin_input = <<>>
    /\ dest_input = <<>>
    /\ Idle

SpecLoad == InitLoad /\ [][Load]_vars

\* input_latlng on every text of at most MaxLen characters.
InitResolve ==
    /\ pc = "form"
    /\ data = NoFile
    /\ ubike_list = <<StationAt(Tuple(Deg(0), Deg(90)))>>
    /\ origin_input \in Texts
    /\ dest_input = <<>>
    /\ Idle

\* The directions service is taken to find no route for a blank text.
NextResolve ==
    \E resp \in GeocodeResponses :
        /\ Strip(origin_input) = <<>> => GeocodeOf(resp) = None
        /\ ResolveOrigin(resp)

SpecResolve == InitResolve /\ [][NextResolve]_vars

\* find_nearest_ubike on every point, station list and top_k.
InitNearest ==
    /\ pc = "call"
    /\ data = NoFile
    /\ ubike_list \in StationLists(0)
    /\ origin_input = <<>>
    /\ dest_input = <<>>
    /\ origin \in QueryPoints
    /\ destination = None
    /\ calls = <<>>
    /\ nearest = None
    /\ responses = <<>>
    /\ summary = None
    /\ error = None
    /\ report = None
    /\ top_k \in 1..(MaxStations + 1)

SpecNearest == InitNearest /\ [][FindNearest]_vars

\* plan_route on every origin, destination and station list that is not
\* empty (main returns before the form when it is).
InitPlan ==
    /\ pc = "plan"
    /\ data = NoFile
    /\ ubike_list \in StationLists(1)
    /\ origin_input = <<>>
    /\ dest_input = <<>>
    /\ origin \in QueryPoints
    /\ destination \in QueryPoints
    /\ calls = <<>>
    /\ nearest = None
    /\ responses = <<>>
    /\ summary = None
    /\ error = None
    /\ report = None
    /\ top_k = 0

NextPlan == PlanNext(FewMatrixResponses, FewTransitResponses)

SpecPlan == InitPlan /\ [][NextPlan]_vars


-----------------------------------------------------------------------------
(* Properties.                                                             *)

\* The distance from point p to station i of ubike_list.
DistanceTo(p, i) == haversine(p.lat, p.lng, ubike_list[i].lat, ubike_list[i].lng)

\* Station s is at minimal distance from p, and is the first such station.
FirstNearest(p, s) ==
    \A j \in 1..Len(ubike_list) :
        /\ DistanceTo(p, s) <= DistanceTo(p, j)
        /\ j < s => DistanceTo(p, s) < DistanceTo(p, j)

\* C1: the itinerary plan_route returns starts the ride at the station
\* nearest the origin and ends it at the station nearest the destination,
\* the first in list order among the stations at that minimal distance.
C1_NearestStations ==
    summary.tag = "summary" =>
        /\ FirstNearest(origin, summary.ubike_start)
        /\ FirstNearest(destination, summary.ubike_end)

\* An itinerary whose start station is not the first of the list and ties
\* with a later station.
C1_Witness ==
    /\ summary.tag = "summary"
    /\ summary.ubike_start > 1
    /\ \E j \in 1..Len(ubike_list) :
        /\ j > summary.ubike_start
        /\ DistanceTo(origin, j) = DistanceTo(origin, summary.ubike_start)

\* C2: for 1 <= k <= n, find_nearest_ubike returns exactly k stations of the
\* list, none twice, in non-decreasing distance from the point, the first of
\* them no farther than any station of the list.
C2_KNearest ==
    (pc = "return" /\ top_k <= Len(ubike_list)) =>
        /\ Len(nearest) = top_k
        /\ \A i \in 1..Len(nearest) : nearest[i] \in 1..Len(ubike_list)
        /\ \A i, j \in 1..Len(nearest) : i < j => nearest[i] # nearest[j]
        /\ \A i, j \in 1..Len(nearest) :
            i < j => DistanceTo(origin, nearest[i]) <= DistanceTo(origin, nearest[j])
        /\ \A j \in 1..Len(ubike_list) :
            DistanceTo(origin, nearest[1]) <= DistanceTo(origin, j)

\* Two of three stations asked for, the nearest not being the first loaded.
C2_Witness ==
    /\ pc = "return"
    /\ top_k = 2
    /\ Len(ubike_list) = 3
    /\ nearest[1] # 1

\* The requests of plan_route among the requests sent: those to the distance
\* matrix, and the transit directions (input_latlng asks for walking).
RoutingRequest(c) == c.api = "distancematrix" \/ c.mode = "transit"

RoutingCalls == SelectSeq(calls, RoutingRequest)

\* A routing call raised: a request went out that brought no response.
RoutingFailed == Len(RoutingCalls) > Len(responses)

\* C3: when one of the four routing calls fails at the transport level,
\* plan_route ends with that error and returns no itinerary, and main shows
\* the error and no result.
C3_FailureAborts ==
    RoutingFailed =>
        /\ summary = None
        /\ error = Exception("RequestException")
        /\ pc \in {"raised", "done"}
        /\ pc = "done" => report = [tag |-> "error", type |-> "RequestException"]

\* The transit call failed after three travel-time calls that found a route.
C3_Witness ==
    /\ RoutingFailed
    /\ Len(responses) = 3
    /\ \A i \in 1..3 : parse_dm(responses[i]).tag = "leg"
    /\ pc = "done"

\* The cell [0][0] of a distance matrix response, when there is one.
HasCell(r) ==
    /\ r.rows.tag = "list"
    /\ r.rows.items # <<>>
    /\ r.rows.items[1].elements.tag = "list"
    /\ r.rows.items[1].elements.items # <<>>

CellOf(r) == r.rows.items[1].elements.items[1]

OkCellIn(r) == HasCell(r) /\ CellOf(r).status = Str("OK")

LegOf(i) ==
    CASE i = 1 -> summary.walk_to_ubike
      [] i = 2 -> summary.bike_leg
      [] i = 3 -> summary.walk_from_ubike

NoRoutes(r) == r.routes.tag # "list" \/ r.routes.items = <<>>

\* C4: when the four routing calls all return, plan_route returns an
\* itinerary whatever they hold: a leg whose cell is missing or not "OK" is
\* the empty leg, a leg whose cell is "OK" carries that cell's duration, and
\* a response with no route gives the empty transit summary, which main
\* reads as duration 0 (it shows that there is no transit data).
C4_PayloadsNeverAbort ==
    Len(responses) = 4 =>
        /\ summary.tag = "summary"
        /\ error = None
        /\ pc \in {"returned", "done"}
        /\ \A i \in 1..3 :
            /\ ~OkCellIn(responses[i]) => LegOf(i) = EmptyDict
            /\ (OkCellIn(responses[i]) /\ CellOf(responses[i]).duration.tag = "dict") =>
                /\ LegOf(i).tag = "leg"
                /\ LegOf(i).duration_s = CellOf(responses[i]).duration.value
        /\ NoRoutes(responses[4]) =>
            /\ summary.transit_option = EmptyDict
            /\ (pc = "done" /\ report.tag = "shown") => report.transit.tag = "warning"

\* The bicycling leg found no route, the two walking legs did, and there is
\* no transit route: the itinerary is shown all the same.
C4_Witness ==
    /\ Len(responses) = 4
    /\ ~OkCellIn(responses[2])
    /\ summary.walk_to_ubike.tag = "leg"
    /\ summary.bike_leg = EmptyDict
    /\ summary.walk_from_ubike.tag = "leg"
    /\ NoRoutes(responses[4])
    /\ pc = "done"
    /\ report.tag = "shown"

\* What the claim asks of a latitude and a longitude.
InRange(lat, lng) ==
    /\ Deg(-90) <= lat /\ lat <= Deg(90)
    /\ Deg(-180) <= lng /\ lng <= Deg(180)

\* The text matches the pattern of input_latlng and the pair it parses to
\* is out of range.
ParsesOutOfRange(s) ==
    /\ ReMatch(Strip(s)) # None
    /\ ~InRange(FloatOfStr(ReMatch(Strip(s)).g1).v, FloatOfStr(ReMatch(Strip(s)).g3).v)

\* C5: input_latlng returns None for a text that is empty or only
\* whitespace and for a text that parses to a pair out of range, so that a
\* pair it returns without asking the directions service is in range.
C5_FailsOutOfRange ==
    pc = "dest" =>
        /\ Strip(origin_input) = <<>> => origin = None
        /\ ParsesOutOfRange(origin_input) => origin = None
        /\ (origin.tag = "tuple" /\ calls = <<>>) => InRange(origin.lat, origin.lng)

\* C6: when the origin or the destination does not resolve, main reports it
\* and returns with plan_route never entered: no routing request has gone
\* out and there is no itinerary.  plan_route is entered only with both
\* resolved.
PlanEntered ==
    \/ pc \in {"plan", "dm1", "dm2", "dm3", "transit", "returned", "raised"}
    \/ nearest.tag # "None"
    \/ RoutingCalls # <<>>
    \/ summary.tag # "None"
    \/ error.tag # "None"

C6_ResolveBeforePlan ==
    /\ PlanEntered => (origin.tag = "tuple" /\ destination.tag = "tuple")
    /\ (pc \notin {"main", "form", "dest"} /\ ubike_list # <<>>
            /\ (origin.tag = "None" \/ destination.tag = "None")) =>
        /\ pc = "done"
        /\ report = [tag |-> "unresolvable"]
        /\ ~PlanEntered

\* The origin was sent to the directions service and did not resolve, the
\* destination did, and main has returned.
C6_Witness ==
    /\ pc = "done"
    /\ origin.tag = "None"
    /\ destination.tag = "tuple"
    /\ report = [tag |-> "unresolvable"]
    /\ origin_input # <<>>
    /\ calls # <<>>


\* The grammar of a coordinate pair, stated on the text itself: a signed
\* decimal is an optional "-", digits, and optionally a point and digits.
IsDigits(s) == s # <<>> /\ \A i \in 1..Len(s) : s[i] \in Digits

IsDecimal(s) ==
    \/ IsDigits(s)
    \/ \E k \in 1..Len(s) :
        /\ s[k] = "."
        /\ IsDigits(SubSeq(s, 1, k - 1))
        /\ IsDigits(SubSeq(s, k + 1, Len(s)))

IsSignedDecimal(s) == IsDecimal(s) \/ (s # <<>> /\ s[1] = "-" /\ IsDecimal(Tail(s)))

IsSpaces(s) == \A i \in 1..Len(s) : IsSpace(s[i])

\* s is a signed decimal ending at a, whitespace, a comma at c, whitespace,
\* and a signed decimal starting at b.
IsPair(s, a, c, b) ==
    /\ s[c] = ","
    /\ IsSignedDecimal(SubSeq(s, 1, a))
    /\ IsSpaces(SubSeq(s, a + 1, c - 1))
    /\ IsSpaces(SubSeq(s, c + 1, b - 1))
    /\ IsSignedDecimal(SubSeq(s, b, Len(s)))

\* Whitespace allowed on both sides of the comma.
SpacedPair(s) ==
    \E a \in 1..Len(s) : \E c \in (a + 1)..Len(s) : \E b \in (c + 1)..Len(s) :
        IsPair(s, a, c, b)

\* C7 as the claim has it: a text that is a signed decimal, a comma with
\* optional whitespace around it, and a signed decimal is returned as the
\* pair, and no request is sent.
C7_SpacedPairIsDirect ==
    (pc = "dest" /\ SpacedPair(origin_input)) => (origin.tag = "tuple" /\ calls = <<>>)

\* C7: a text that, once stripped, is a signed decimal, a comma, optional
\* whitespace and a signed decimal is returned as the pair of the two
\* numbers, and no request is sent.
C7_PairIsDirect ==
    pc = "dest" =>
        \A a \in 1..Len(Strip(origin_input)) : \A b \in (a + 2)..Len(Strip(origin_input)) :
            IsPair(Strip(origin_input), a, a + 1, b) =>
                /\ origin = Tuple(FloatOfStr(SubSeq(Strip(origin_input), 1, a)).v,
                                  FloatOfStr(SubSeq(Strip(origin_input), b,
                                                    Len(Strip(origin_input)))).v)
                /\ calls = <<>>

\* A pair with a fraction, whitespace after its comma, returned directly.
C7_Witness ==
    /\ pc = "dest"
    /\ origin.tag = "tuple"
    /\ calls = <<>>
    /\ \E i \in 1..(Len(origin_input) - 1) : origin_input[i] = "," /\ origin_input[i + 1] = " "

\* What the loader makes of a record it keeps.
NumberIn(x) == IF x.tag = "number" THEN x.v ELSE FloatOfStr(x.s).v

StationOf(item) ==
    [tag |-> "station", name |-> Get(item.name), lat |-> NumberIn(item.lat),
     lng |-> NumberIn(item.lng)]

StationsOf(items) == [i \in 1..Len(items) |-> StationOf(items[i])]

IsNumeric(x) == x.tag = "number" \/ (x.tag = "str" /\ FloatOfStr(x.s).tag = "float")

HasCoordinates(item) == item.tag = "dict" /\ IsNumeric(item.lat) /\ IsNumeric(item.lng)

HasNameAndCoordinates(item) == HasCoordinates(item) /\ item.name.tag = "str"

\* C8 as the claim has it: the list loaded is, in the dataset's order, the
\* records with a name and a numeric latitude and longitude.
C8_NamedRecordsKept ==
    (pc # "main" /\ data.tag = "file") =>
        ubike_list = StationsOf(SelectSeq(data.items, HasNameAndCoordinates))

\* C8: the list loaded is, in the dataset's order, the records whose
\* latitude and longitude are numeric, their name being None when it is
\* missing; every other record is skipped and the load does not fail.
C8_NumericRecordsKept ==
    (pc # "main" /\ data.tag = "file") =>
        ubike_list = StationsOf(SelectSeq(data.items, HasCoordinates))

\* A record without numeric coordinates is skipped and the record after it,
\* which has no name, is kept.
C8_Witness ==
    /\ pc # "main"
    /\ data.tag = "file"
    /\ Len(data.items) = 2
    /\ ~HasCoordinates(data.items[1])
    /\ data.items[2].tag = "dict"
    /\ data.items[2].name = Absent
    /\ Len(ubike_list) = 1
    /\ ubike_list[1].name = None

\* The seconds of a leg of the itinerary, a leg without route counting 0.
LegSecondsOf(leg) == IF leg.tag = "empty" THEN 0 ELSE leg.duration_s.v

BikeSeconds ==
    LegSecondsOf(summary.walk_to_ubike) + LegSecondsOf(summary.bike_leg)
        + LegSecondsOf(summary.walk_from_ubike)

TransitSeconds ==
    IF summary.transit_option.tag = "empty" THEN 0 ELSE summary.transit_option.duration_s

\* A leg that found a route and carries no duration.
NoDuration(leg) == leg.tag = "leg" /\ leg.duration_s = None

SomeNoDuration ==
    \/ NoDuration(summary.walk_to_ubike)
    \/ NoDuration(summary.bike_leg)
    \/ NoDuration(summary.walk_from_ubike)

\* main has shown the comparison with transit.
Compared == pc = "done" /\ report.tag = "shown" /\ report.transit.tag = "transit"

\* C9 as the claim has it: the alternative reported faster is the one whose
\* total in seconds is smaller, and neither only when the totals are equal.
C9_FasterBySeconds ==
    Compared =>
        /\ report.transit.caption = "ubike_faster" <=> BikeSeconds < TransitSeconds
        /\ report.transit.caption = "transit_faster" <=> TransitSeconds < BikeSeconds
        /\ report.transit.caption = "same" <=> BikeSeconds = TransitSeconds

\* C9: for an itinerary with a transit duration above 0 whose legs all carry
\* a duration or are empty, the bike-share total shown is the sum of the
\* three leg durations in whole minutes, and the faster alternative is
\* decided by the sign of the difference of the two totals in whole
\* minutes; a leg that found a route without a duration makes the display
\* end with TypeError instead.
C9_FasterByMinutes ==
    (pc = "done" /\ summary.tag = "summary" /\ TransitSeconds > 0) =>
        IF SomeNoDuration
        THEN report = [tag |-> "error", type |-> "TypeError"]
        ELSE /\ Compared
             /\ report.total_ubike_min = BikeSeconds \div 60
             /\ report.transit.transit_min = TransitSeconds \div 60
             /\ report.transit.diff = (TransitSeconds \div 60) - (BikeSeconds \div 60)
             /\ report.transit.caption = "ubike_faster" <=>
                    (BikeSeconds \div 60) < (TransitSeconds \div 60)
             /\ report.transit.caption = "transit_faster" <=>
                    (TransitSeconds \div 60) < (BikeSeconds \div 60)
             /\ report.transit.caption = "same" <=>
                    (BikeSeconds \div 60) = (TransitSeconds \div 60)

\* Legs of 300 s, 600 s and 240 s against a transit of 1200 s: 19 minutes
\* against 20, the bike-share faster by 1.
C9_Witness ==
    /\ Compared
    /\ LegSecondsOf(summary.walk_to_ubike) = 300
    /\ LegSecondsOf(summary.bike_leg) = 600
    /\ LegSecondsOf(summary.walk_from_ubike) = 240
    /\ TransitSeconds = 1200
    /\ report.total_ubike_min = 19
    /\ report.transit.transit_min = 20
    /\ report.transit.diff = 1
    /\ report.transit.caption = "ubike_faster"

\* The four requests of plan_route, in the order of lines 140-144.
ExpectedCalls ==
    <<DistanceMatrixRequest(ori_str, start_str, "walking"),
      DistanceMatrixRequest(start_str, end_str, "bicycling"),
      DistanceMatrixRequest(end_str, dest_str, "walking"),
      DirectionsRequest(ori_str, dest_str, "transit")>>

IsPrefix(s, q) == Len(s) <= Len(q) /\ s = SubSeq(q, 1, Len(s))

\* C10: the routing requests sent are always the first of walking to the
\* start station, bicycling between the stations, walking from the end
\* station and transit, in that order; a step sends at most one request,
\* and once a call has failed no further request is sent.
C10_CallOrder ==
    [][/\ RoutingCalls' # <<>> => IsPrefix(RoutingCalls', ExpectedCalls')
       /\ Len(RoutingCalls') <= Len(RoutingCalls) + 1
       /\ RoutingFailed => RoutingCalls' = RoutingCalls]_vars

\* The second call failed: two requests were sent and main has returned.
C10_Witness ==
    /\ RoutingFailed
    /\ Len(RoutingCalls) = 2
    /\ pc = "done"

=============================================================================
